---- MODULE Spec2Model ----
(***************************************************************************)
(* Model of the obsidian-voice-notes plugin: the plugin's onload scan and  *)
(* vault watchers (main.ts) and the VoiceProcessor queue and pipeline      *)
(* (processor.ts).  A path is a record; a directory is a sequence of       *)
(* string tokens so that String.includes is a contiguous-subsequence test. *)
(***************************************************************************)
EXTENDS Integers, Sequences, FiniteSets, TLC

\* ------------------------------------------------------------------ bounds
\* Number of queueFile calls explored.
MaxRuns == 3
\* file.stat.mtime ranges over 0..MaxMtime, in units of half a minute.
MaxMtime == 2
\* Math.random draws explored: the NumLowDraws lowest values and the highest.
NumLowDraws == 1
\* The longest message content and headline of the pure functions'
\* specification, in tokens.
MaxContentLen == 4

\* --------------------------------------------------------- program constants
\* A queue built with concurrency 2.
ConcurrencyTwo == 1 + 1
\* new PQueue({ concurrency: 1 })
Concurrency == 1

\* Math.floor(Math.random() * 1000)
RandomRange == 1000

\* Units of mtime per minute of the 'HH.mm' format (mtime is in half minutes).
UnitsPerMinute == 2

Recs == {"a", "b"}
AudioExtensions == {"mp3", "m4a"}

DEFAULT_SETTINGS ==
    [watchDirectory     |-> <<"voice-notes">>,
     processedDirectory |-> <<"voice-notes", "-processed">>,
     outputDirectory    |-> <<"voice-notes", "-output">>]

\* A configuration stored by the settings tab (loadData()).
CustomSettings ==
    [watchDirectory     |-> <<"inbox">>,
     processedDirectory |-> <<"archive">>,
     outputDirectory    |-> <<"notes">>]

\* loadSettings: Object.assign({}, DEFAULT_SETTINGS, await this.loadData())
LoadableSettings == {DEFAULT_SETTINGS, CustomSettings}

NoSuffix == -1
NoMinute == -1

NoPath == [dir |-> <<>>, name |-> "", minute |-> NoMinute, suf |-> NoSuffix, ext |-> ""]

\* A file the user put into a directory under its own name.
NamedPath(dir, name, ext) ==
    [dir |-> dir, name |-> name, minute |-> NoMinute, suf |-> NoSuffix, ext |-> ext]

\* `${dir}/${baseFileName}.${ext}` and `${dir}/${baseFileName}_${n}.${ext}`
BasePath(dir, minute, suf, ext) ==
    [dir |-> dir, name |-> "", minute |-> minute, suf |-> suf, ext |-> ext]

\* The path as the string the code sees, token by token.
PathTokens(p) ==
    p.dir \o <<"/", (IF p.minute = NoMinute THEN p.name ELSE "date")>>
          \o (IF p.suf = NoSuffix THEN <<>> ELSE <<"_n">>)
          \o <<".", p.ext>>

\* String.prototype.includes
Includes(s, sub) ==
    \E i \in 0..(Len(s) - Len(sub)) :
        \A k \in 1..Len(sub) : s[i + k] = sub[k]

\* An isAudioFile that knows mp3 only.
isAudioFileMp3Only(ext) == ext = "mp3"
isAudioFile(ext) == ext = "mp3" \/ ext = "m4a"

\* kind is "TFile" or "TFolder": `file instanceof TFile`.
shouldProcessFile(st, kind, p) ==
    Includes(PathTokens(p), st.watchDirectory)
        /\ kind = "TFile"
        /\ isAudioFile(p.ext)

\* moment(file.stat.mtime).format('YYYY-MM-DD') at format('HH.mm'): to the minute
baseFileName(mtime) == mtime \div UnitsPerMinute

\* Math.floor(Math.random() * 1000)
RandomSuffixes ==
    {n \in 0..(RandomRange - 1) : n < NumLowDraws \/ n >= RandomRange - 1}

VARIABLES
    phase,      \* "loading" before onLayoutReady, "ready" after
    settings,   \* this.settings
    folders,    \* the folders of the vault
    recs,       \* the recordings: TFile objects (path is updated by rename)
    notes,      \* the other files of the vault: path -> content
    tasks,      \* every function handed to queue.add, in order of the calls
    queue,      \* PQueue's pending tasks (indices into tasks)
    notices,    \* the Notices shown, in order
    probe       \* a call of one of the pure functions: its input and result

vars == <<phase, settings, folders, recs, notes, tasks, queue, notices, probe>>

\* No pure function has been called on its own.
NoProbe == [fn |-> "none"]

\* --------------------------------------------------------------- the vault
\* vault.getAbstractFileByPath(p) !== null
PathExists(rc, nt, p) ==
    \/ p \in DOMAIN nt
    \/ \E r \in Recs : rc[r].exists /\ rc[r].path = p

\* The file a note path holds, extended by one file.
WithFile(nt, p, c) == [q \in DOMAIN nt \cup {p} |-> IF q = p THEN c ELSE nt[q]]

\* A write that replaces whatever is at path (vault.adapter.write).
VaultCreateNeverThrows(rc, nt, p) == FALSE
\* vault.create(path, data) rejects when a file is already at path.
VaultCreateThrows(rc, nt, p) == PathExists(rc, nt, p)

\* A move that replaces whatever is at newPath (adapter.rename).
VaultRenameNeverThrows(fl, rc, nt, p) == FALSE
\* vault.rename(file, newPath) rejects when a file is already at newPath, and
\* when newPath's folder does not exist.
VaultRenameThrows(fl, rc, nt, p) == p.dir \notin fl \/ PathExists(rc, nt, p)

\* --------------------------------------------------------------- the queue
ActivePcs == {"transcribeAudio", "enhanceTranscript", "create", "rename"}
TerminalPcs == {"succeeded", "failed"}

\* A function handed to queue.add that has not run yet.
NewTask(f) ==
    [file |-> f, pc |-> "pending", startPath |-> NoPath,
     base |-> NoMinute, transcription |-> "", transcript |-> "",
     completion |-> "", markdown |-> <<>>,
     outputPath |-> NoPath, noteCollision |-> FALSE, createResult |-> "",
     targetLocation |-> NoPath, targetCollision |-> FALSE,
     targetDirExisted |-> TRUE, renameInvoked |-> FALSE, moved |-> FALSE,
     requeued |-> FALSE, failStage |-> ""]

Notice(kind, path) == [kind |-> kind, path |-> path]

\* The runs between their first statement and their success or failure.
Running(ts) == {i \in 1..Len(ts) : ts[i].pc \in ActivePcs}

\* A queue that runs the task added last.
DequeueLast(q) == q[Len(q)]
\* PQueue's dequeue: the task that was added first.
Dequeue(q) == Head(q)

\* The task function up to its first await: the Notice, the names computed
\* from file.stat.mtime, and the call of transcribeAudio.
Started(t, rc) ==
    [t EXCEPT !.pc = "transcribeAudio",
              !.startPath = rc[t.file].path,
              !.base = baseFileName(rc[t.file].mtime)]

\* A task function without its first Notice.
TryToStartSilently(s, rc) ==
    IF s.queue # <<>> /\ Cardinality(Running(s.tasks)) < Concurrency
    THEN LET i == Dequeue(s.queue) IN
         [tasks   |-> [s.tasks EXCEPT ![i] = Started(@, rc)],
          queue   |-> SelectSeq(s.queue, LAMBDA x : x # i),
          notices |-> s.notices]
    ELSE s
\* PQueue starts a pending task whenever fewer than `concurrency` run.
TryToStartAnother(s, rc) ==
    IF s.queue # <<>> /\ Cardinality(Running(s.tasks)) < Concurrency
    THEN LET i == Dequeue(s.queue) IN
         [tasks   |-> [s.tasks EXCEPT ![i] = Started(@, rc)],
          queue   |-> SelectSeq(s.queue, LAMBDA x : x # i),
          notices |-> Append(s.notices,
                             Notice("Processing", rc[s.tasks[i].file].path))]
    ELSE s

\* queueFile(file): queue.add(async () => {...}).  Calls beyond MaxRuns are
\* not explored.
queueFile(s, f, rc) ==
    IF Len(s.tasks) >= MaxRuns THEN s
    ELSE TryToStartAnother(
             [tasks   |-> Append(s.tasks, NewTask(f)),
              queue   |-> Append(s.queue, Len(s.tasks) + 1),
              notices |-> s.notices], rc)

\* queueFromWatcher(file), the handler of the vault's create and rename events.
queueFromWatcher(s, f, rc) ==
    IF shouldProcessFile(settings, "TFile", rc[f].path) THEN queueFile(s, f, rc) ELSE s

\* A task that shows "Transcribed" whether or not processAudioFile threw.
SettleAsSuccess(s, i, ok, stage, rc) ==
    TryToStartAnother(
        [tasks   |-> [s.tasks EXCEPT ![i].pc = "succeeded",
                                     ![i].failStage = stage],
         queue   |-> s.queue,
         notices |-> Append(s.notices,
                            Notice("Transcribed", rc[s.tasks[i].file].path))], rc)
\* A task without the catch, on a queue that stops at a rejected task.
SettleHaltOnFailure(s, i, ok, stage, rc) ==
    LET done == [tasks   |-> [s.tasks EXCEPT ![i].pc = IF ok THEN "succeeded" ELSE "failed",
                                             ![i].failStage = stage],
                 queue   |-> s.queue,
                 notices |-> Append(s.notices,
                                Notice(IF ok THEN "Transcribed" ELSE "Failed",
                                       rc[s.tasks[i].file].path))]
    IN IF ok THEN TryToStartAnother(done, rc) ELSE done
\* The end of the task function: the Notice of the try or of the catch
\* block; the task's promise settles and PQueue starts the next task.
Settle(s, i, ok, stage, rc) ==
    TryToStartAnother(
        [tasks   |-> [s.tasks EXCEPT ![i].pc = IF ok THEN "succeeded" ELSE "failed",
                                     ![i].failStage = stage],
         queue   |-> s.queue,
         notices |-> Append(s.notices,
                            Notice(IF ok THEN "Transcribed" ELSE "Failed",
                                   rc[s.tasks[i].file].path))], rc)

QState == [tasks |-> tasks, queue |-> queue, notices |-> notices]

SetQ(s) ==
    /\ tasks' = s.tasks
    /\ queue' = s.queue
    /\ notices' = s.notices

\* ------------------------------------------------------- remote responses
\* openai.audio.transcriptions.create: it rejects, or resolves to a response
\* whose text may be empty.
TranscriptionResponses ==
    {[error |-> TRUE,  text |-> ""],
     [error |-> FALSE, text |-> ""],
     [error |-> FALSE, text |-> "Hello world"]}

\* openai.chat.completions.create: it rejects, or resolves to a message
\* content, a string given token by token: a line break, a blank, or a piece
\* of text without either at its ends.  The empty string is << >>.
ChatResponses ==
    {[error |-> TRUE,  content |-> << >>],
     [error |-> FALSE, content |-> << >>],
     [error |-> FALSE, content |-> <<"Quick note", "\n", "- said hello">>]}

\* What a response was: "unusable" (the call rejected, or its text is
\* empty) or "text".
TranscriptionKind(resp) ==
    IF resp.error \/ resp.text = "" THEN "unusable" ELSE "text"
ChatKind(resp) ==
    IF resp.error \/ resp.content = << >> THEN "unusable" ELSE "text"

\* transcribeAudio without the `!response.text` check.
TranscribeThrowsOnErrorOnly(resp) == resp.error
\* transcribeAudio throws: the call rejected, or `!response.text`.
TranscribeThrows(resp) == resp.error \/ resp.text = ""

\* enhanceTranscript throws: the call rejected, or `!message.content`.
EnhanceThrows(resp) == resp.error \/ resp.content = << >>

\* String.prototype.split('\n'): the pieces between the line breaks.
RECURSIVE Split(_)
Split(s) ==
    IF \A k \in DOMAIN s : s[k] # "\n" THEN <<s>>
    ELSE LET k == CHOOSE k \in DOMAIN s :
                      s[k] = "\n" /\ \A j \in 1..(k - 1) : s[j] # "\n"
         IN <<SubSeq(s, 1, k - 1)>> \o Split(SubSeq(s, k + 1, Len(s)))

\* Array.prototype.join('\n')
RECURSIVE Join(_)
Join(ls) ==
    IF ls = << >> THEN << >>
    ELSE IF Len(ls) = 1 THEN ls[1]
    ELSE ls[1] \o <<"\n">> \o Join(Tail(ls))

WhiteSpace == {" ", "\n"}

\* String.prototype.trim
RECURSIVE TrimStart(_)
TrimStart(s) ==
    IF s # << >> /\ Head(s) \in WhiteSpace THEN TrimStart(Tail(s)) ELSE s
RECURSIVE TrimEnd(_)
TrimEnd(s) ==
    IF s # << >> /\ s[Len(s)] \in WhiteSpace
    THEN TrimEnd(SubSeq(s, 1, Len(s) - 1)) ELSE s
Trim(s) == TrimEnd(TrimStart(s))

\* The result of the older processor: the remaining lines are not trimmed.
enhanceTranscriptNoTrim(content) ==
    LET contentLines == Split(content) IN
    [summary |-> contentLines[1],
     content |-> Join(Tail(contentLines))]
\* enhanceTranscript's result: { summary: contentLines[0],
\*                               content: contentLines.slice(1).join('\n').trim() }
enhanceTranscript(content) ==
    LET contentLines == Split(content) IN
    [summary |-> contentLines[1],
     content |-> Trim(Join(Tail(contentLines)))]

\* formatToMarkdown: the front-matter's source, its summary line
\* `summary: "${summary}"` token by token (the summary is a string of
\* tokens, a double quote and a backslash being tokens of their own), the
\* content and the transcript.  audioFileName is
\* `${baseFileName}.${file.extension}`.
formatToMarkdown(summary, transcript, content, audioFileName) ==
    [source |-> audioFileName, summary |-> summary,
     summaryLine |-> <<"summary: ", "\"">> \o summary \o <<"\"">>,
     content |-> content, transcript |-> transcript]

audioFileName(t, rc) == [minute |-> t.base, suf |-> NoSuffix, ext |-> rc[t.file].ext]

\* The output path without the getAbstractFileByPath check.
OutputPathsNoCheck(st, rc, nt, base) ==
    {BasePath(st.outputDirectory, base, NoSuffix, "md")}
\* let outputPath = `${outputDirectory}/${baseFileName}.md`; when a file is
\* there, `${outputDirectory}/${baseFileName}_${random}.md`.
OutputPaths(st, rc, nt, base) ==
    LET desired == BasePath(st.outputDirectory, base, NoSuffix, "md") IN
    IF PathExists(rc, nt, desired)
    THEN {BasePath(st.outputDirectory, base, n, "md") : n \in RandomSuffixes}
    ELSE {desired}

\* let targetLocation = `${processedDir}/${audioFileName}`; when a file is
\* there, `${processedDirectory}/${baseFileName}${randomSuffix}.${extension}`.
TargetLocations(st, rc, nt, base, ext) ==
    LET desired == BasePath(st.processedDirectory, base, NoSuffix, ext) IN
    IF PathExists(rc, nt, desired)
    THEN {BasePath(st.processedDirectory, base, n, ext) : n \in RandomSuffixes}
    ELSE {desired}

\* ------------------------------------------------------------------- Init
\* The note a user wrote by hand.
UserNote == [source |-> [minute |-> NoMinute, suf |-> NoSuffix, ext |-> ""],
             summary |-> << >>, summaryLine |-> << >>,
             content |-> << >>, transcript |-> ""]

\* The recordings' modification times and extensions: recording "a" is an
\* m4a of time 0 that is in the watch folder at startup, recording "b" is
\* any audio file of any later time, there at startup or created later.
\* Recording "a" is the one the user may rename.
RenamableRecs == {"a"}
RecPresence == {ex \in [Recs -> BOOLEAN] : ex["a"]}
RecMtimes == {mt \in [Recs -> 0..MaxMtime] : mt["a"] = 0 /\ mt["b"] > 0}
RecExtensions == {xt \in [Recs -> AudioExtensions] : xt["a"] = "m4a"}

Init ==
    /\ phase = "loading"
    /\ settings \in LoadableSettings
    /\ \E withFolders \in BOOLEAN :
          folders = {settings.watchDirectory} \cup
                    (IF withFolders
                     THEN {settings.processedDirectory, settings.outputDirectory}
                     ELSE {})
    /\ \E ex \in RecPresence, mt \in RecMtimes, xt \in RecExtensions :
          recs = [r \in Recs |->
                    [exists |-> ex[r],
                     path   |-> IF ex[r]
                                THEN NamedPath(settings.watchDirectory, r, xt[r])
                                ELSE NoPath,
                     mtime  |-> mt[r],
                     ext    |-> xt[r]]]
    /\ \E ms \in SUBSET {baseFileName(0)} :
          notes = [p \in {BasePath(settings.outputDirectory, m, NoSuffix, "md") : m \in ms}
                     |-> UserNote]
    /\ tasks = <<>>
    /\ queue = <<>>
    /\ notices = <<>>
    /\ probe = NoProbe

\* --------------------------------------------------------------- startup
RECURSIVE QueueAll(_, _, _)
\* queueUnprocessedFiles: for (const file of files) if (shouldProcessFile) queueFile
QueueAll(s, fs, rc) ==
    IF fs = <<>> THEN s
    ELSE QueueAll(IF shouldProcessFile(settings, "TFile", rc[Head(fs)].path)
                  THEN queueFile(s, Head(fs), rc) ELSE s,
                  Tail(fs), rc)

\* vault.getFiles(): the files of the vault, in the vault's order.
GetFiles(rc) ==
    LET S == {r \in Recs : rc[r].exists} IN
    {fs \in [1..Cardinality(S) -> S] : \A i, j \in DOMAIN fs : i # j => fs[i] # fs[j]}

\* The onLayoutReady callback: create the two folders when missing, queue
\* the files already there, register the watchers.
OnLayoutReady ==
    /\ phase = "loading"
    /\ phase' = "ready"
    /\ folders' = folders \cup {settings.processedDirectory, settings.outputDirectory}
    /\ \E fs \in GetFiles(recs) : SetQ(QueueAll(QState, fs, recs))
    /\ UNCHANGED <<settings, recs, notes, probe>>

\* ---------------------------------------------------------- vault events
\* A recording appears in the watch folder: the vault's "create" event.
UserCreate(r) ==
    /\ phase = "ready"
    /\ ~recs[r].exists
    /\ Len(tasks) < MaxRuns
    /\ LET p  == NamedPath(settings.watchDirectory, r, recs[r].ext)
           rc == [recs EXCEPT ![r].exists = TRUE, ![r].path = p]
       IN /\ ~PathExists(recs, notes, p)
          /\ recs' = rc
          /\ SetQ(queueFromWatcher(QState, r, rc))
    /\ UNCHANGED <<probe, phase, settings, folders, notes>>

RenamedName(r) == IF r = "a" THEN "a-renamed" ELSE "b-renamed"

\* The user renames a recording inside its folder: the "rename" event.
UserRename(r) ==
    /\ phase = "ready"
    /\ recs[r].exists
    /\ recs[r].path.name = r
    /\ Len(tasks) < MaxRuns
    /\ LET p  == [recs[r].path EXCEPT !.name = RenamedName(r)]
           rc == [recs EXCEPT ![r].path = p]
       IN /\ ~PathExists(recs, notes, p)
          /\ recs' = rc
          /\ SetQ(queueFromWatcher(QState, r, rc))
    /\ UNCHANGED <<probe, phase, settings, folders, notes>>

\* ------------------------------------------------------------ the pipeline
\* transcribeAudio settles: readBinary and the transcription call.
Transcribe(i) ==
    /\ i \in 1..Len(tasks)
    /\ tasks[i].pc = "transcribeAudio"
    /\ \E resp \in TranscriptionResponses :
          IF TranscribeThrows(resp)
          THEN SetQ(Settle([QState EXCEPT
                               !.tasks[i].transcription = TranscriptionKind(resp)],
                           i, FALSE, "transcription", recs))
          ELSE /\ tasks' = [tasks EXCEPT ![i].pc = "enhanceTranscript",
                                         ![i].transcription = TranscriptionKind(resp),
                                         ![i].transcript = resp.text]
               /\ UNCHANGED <<queue, notices>>
    /\ UNCHANGED <<probe, phase, settings, folders, recs, notes>>

\* enhanceTranscript settles; the markdown is formatted, the output path is
\* chosen and vault.create is called.
Enhance(i) ==
    /\ i \in 1..Len(tasks)
    /\ tasks[i].pc = "enhanceTranscript"
    /\ \E resp \in ChatResponses :
          IF EnhanceThrows(resp)
          THEN SetQ(Settle([QState EXCEPT !.tasks[i].completion = ChatKind(resp)],
                           i, FALSE, "summarization", recs))
          ELSE /\ \E out \in OutputPaths(settings, recs, notes, tasks[i].base) :
                     tasks' = [tasks EXCEPT
                        ![i].pc = "create",
                        ![i].completion = ChatKind(resp),
                        ![i].markdown =
                            formatToMarkdown(enhanceTranscript(resp.content).summary,
                                             tasks[i].transcript,
                                             enhanceTranscript(resp.content).content,
                                             audioFileName(tasks[i], recs)),
                        ![i].noteCollision =
                            PathExists(recs, notes,
                                BasePath(settings.outputDirectory, tasks[i].base,
                                         NoSuffix, "md")),
                        ![i].outputPath = out]
               /\ UNCHANGED <<queue, notices>>
    /\ UNCHANGED <<probe, phase, settings, folders, recs, notes>>

\* The same with vault.create not awaited: its rejection is lost and the
\* run goes on to the move.
CreateUnawaited(i) ==
    /\ i \in 1..Len(tasks)
    /\ tasks[i].pc = "create"
    /\ \E ioError \in BOOLEAN :
          LET rejected == ioError \/ VaultCreateThrows(recs, notes, tasks[i].outputPath) IN
          /\ notes' = IF rejected THEN notes
                      ELSE WithFile(notes, tasks[i].outputPath, tasks[i].markdown)
          /\ \E target \in TargetLocations(settings, recs, notes',
                                           tasks[i].base, recs[tasks[i].file].ext) :
                tasks' = [tasks EXCEPT
                   ![i].pc = "rename",
                   ![i].createResult = IF rejected THEN "rejected" ELSE "ok",
                   ![i].targetLocation = target,
                   ![i].renameInvoked = TRUE]
          /\ UNCHANGED <<queue, notices>>
    /\ UNCHANGED <<probe, phase, settings, folders, recs>>

\* vault.create settles; on success the target location is chosen and
\* vault.rename is called.
Create(i) ==
    /\ i \in 1..Len(tasks)
    /\ tasks[i].pc = "create"
    /\ \E ioError \in BOOLEAN :
          IF ioError \/ VaultCreateThrows(recs, notes, tasks[i].outputPath)
          THEN /\ SetQ(Settle([QState EXCEPT !.tasks[i].createResult = "rejected"],
                               i, FALSE, "write", recs))
               /\ UNCHANGED notes
          ELSE /\ notes' = WithFile(notes, tasks[i].outputPath, tasks[i].markdown)
               /\ \E target \in TargetLocations(settings, recs, notes',
                                                tasks[i].base, recs[tasks[i].file].ext) :
                     tasks' = [tasks EXCEPT
                        ![i].pc = "rename",
                        ![i].createResult = "ok",
                        ![i].targetCollision =
                            PathExists(recs, notes',
                                BasePath(settings.processedDirectory, tasks[i].base,
                                         NoSuffix, recs[tasks[i].file].ext)),
                        ![i].targetLocation = target,
                        ![i].targetDirExisted =
                            settings.processedDirectory \in folders,
                        ![i].renameInvoked = TRUE]
               /\ UNCHANGED <<queue, notices>>
    /\ UNCHANGED <<probe, phase, settings, folders, recs>>

\* The same with a catch that deletes the Note when the move is rejected.
RenameRollsBack(i) ==
    /\ i \in 1..Len(tasks)
    /\ tasks[i].pc = "rename"
    /\ \E ioError \in BOOLEAN :
          IF ioError \/ VaultRenameThrows(folders, recs, notes, tasks[i].targetLocation)
          THEN /\ SetQ(Settle(QState, i, FALSE, "move", recs))
               /\ notes' = [q \in DOMAIN notes \ {tasks[i].outputPath} |-> notes[q]]
               /\ UNCHANGED recs
          ELSE LET rc == [recs EXCEPT ![tasks[i].file].path = tasks[i].targetLocation]
                   s1 == [QState EXCEPT !.tasks[i].moved = TRUE]
               IN /\ recs' = rc
                  /\ UNCHANGED notes
                  /\ SetQ(Settle(queueFromWatcher(s1, tasks[i].file, rc),
                                 i, TRUE, "", rc))
    /\ UNCHANGED <<probe, phase, settings, folders>>

\* vault.rename settles; on success the file has its new path, the vault's
\* "rename" event reaches queueFromWatcher (requeued: it passed the file to
\* queueFile), and the task ends.
Rename(i) ==
    /\ i \in 1..Len(tasks)
    /\ tasks[i].pc = "rename"
    /\ \E ioError \in BOOLEAN :
          IF ioError \/ VaultRenameThrows(folders, recs, notes, tasks[i].targetLocation)
          THEN /\ SetQ(Settle(QState, i, FALSE, "move", recs))
               /\ UNCHANGED recs
          ELSE LET rc == [recs EXCEPT ![tasks[i].file].path = tasks[i].targetLocation]
                   s1 == [QState EXCEPT !.tasks[i].moved = TRUE]
                   s2 == queueFromWatcher(s1, tasks[i].file, rc)
                   s3 == [s2 EXCEPT !.tasks[i].requeued =
                             shouldProcessFile(settings, "TFile", rc[tasks[i].file].path)]
               IN /\ recs' = rc
                  /\ SetQ(Settle(s3, i, TRUE, "", rc))
    /\ UNCHANGED <<probe, phase, settings, folders, notes>>

Next ==
    \/ OnLayoutReady
    \/ \E r \in Recs : UserCreate(r)
    \/ \E r \in RenamableRecs : UserRename(r)
    \/ \E i \in 1..MaxRuns : Transcribe(i)
    \/ \E i \in 1..MaxRuns : Enhance(i)
    \/ \E i \in 1..MaxRuns : Create(i)
    \/ \E i \in 1..MaxRuns : Rename(i)

Spec == Init /\ [][Next]_vars

\* ------------------------------------------------ the folders after startup
\* The user deletes the processed directory while it is empty.
UserRemoveFolder ==
    /\ phase = "ready"
    /\ settings.processedDirectory \in folders
    /\ \A r \in Recs :
          recs[r].exists => recs[r].path.dir # settings.processedDirectory
    /\ folders' = folders \ {settings.processedDirectory}
    /\ UNCHANGED <<probe, phase, settings, recs, notes, tasks, queue, notices>>

FolderNext ==
    \/ Next
    \/ UserRemoveFolder

\* Every remote call and every storage operation eventually returns or throws.
\* RunStep is the settling of whichever call a run is waiting for.
RunStep ==
    \E i \in 1..MaxRuns : Transcribe(i) \/ Enhance(i) \/ Create(i) \/ Rename(i)

Fairness == WF_vars(RunStep)

\* The startup states progress is checked from: no hand-written note, and
\* recording "b" an m4a of the same minute as "a", so that the two
\* recordings want the same note path and the same archive path.
LiveInit ==
    /\ Init
    /\ notes = << >>
    /\ recs["b"].ext = "m4a"
    /\ recs["b"].mtime = 1

LiveSpec == LiveInit /\ [][Next]_vars /\ Fairness

\* The same startup states, with a user who may delete the processed
\* directory once the plugin runs.
FolderSpec == LiveInit /\ [][FolderNext]_vars

\* ------------------------------------------------- the pure functions
\* The state the pure functions are called in: nothing queued, no file.
PureInit ==
    /\ phase = "loading"
    /\ settings \in LoadableSettings
    /\ folders = {settings.watchDirectory}
    /\ recs = [r \in Recs |-> [exists |-> FALSE, path |-> NoPath,
                               mtime |-> 0, ext |-> "m4a"]]
    /\ notes = << >>
    /\ tasks = <<>>
    /\ queue = <<>>
    /\ notices = <<>>
    /\ probe = NoProbe

\* The files and folders shouldProcessFile is asked about: folders of either
\* configuration, a folder below another one, a folder elsewhere; names that
\* are or are not the watch directory's; extensions in other cases and of
\* other kinds.
ProbeDirs ==
    {DEFAULT_SETTINGS.watchDirectory, DEFAULT_SETTINGS.processedDirectory,
     DEFAULT_SETTINGS.outputDirectory, CustomSettings.watchDirectory,
     CustomSettings.processedDirectory,
     <<"docs">>, <<"docs", "/", "inbox">>, <<"my-", "voice-notes">>}
ProbeNames == {"rec", "voice-notes", "inbox"}
ProbeExtensions == {"mp3", "m4a", "MP3", "wav", "md", ""}
ProbeKinds == {"TFile", "TFolder"}

\* shouldProcessFile(this.settings, file) on its own.  (Each behaviour of
\* PureSpec is one call of one function on one input.)
ProbeFilter ==
    /\ probe = NoProbe
    /\ \E kind \in ProbeKinds, dir \in ProbeDirs, name \in ProbeNames,
          ext \in ProbeExtensions :
          probe' = [fn     |-> "shouldProcessFile",
                    kind   |-> kind,
                    path   |-> NamedPath(dir, name, ext),
                    result |-> shouldProcessFile(settings, kind,
                                                 NamedPath(dir, name, ext))]
    /\ UNCHANGED <<phase, settings, folders, recs, notes, tasks, queue, notices>>

\* The contents a chat completion may have, up to MaxContentLen tokens.
ContentTokens == {"a", "b", " ", "\n"}
ProbeContents ==
    UNION {[1..n -> ContentTokens] : n \in 0..MaxContentLen}
ProbeChatResponses ==
    {[error |-> TRUE, content |-> << >>]}
        \cup {[error |-> FALSE, content |-> c] : c \in ProbeContents}

\* enhanceTranscript(transcript) on its own: it throws, or returns a summary
\* and a content.
ProbeSplit ==
    /\ probe = NoProbe
    /\ \E resp \in ProbeChatResponses :
          probe' = [fn       |-> "enhanceTranscript",
                    response |-> resp,
                    throws   |-> EnhanceThrows(resp),
                    result   |-> IF EnhanceThrows(resp)
                                 THEN [summary |-> << >>, content |-> << >>]
                                 ELSE enhanceTranscript(resp.content)]
    /\ UNCHANGED <<phase, settings, folders, recs, notes, tasks, queue, notices>>

\* The summaries formatToMarkdown may be given, up to MaxContentLen tokens.
HeadlineTokens == {"a", "\"", "\\"}
ProbeHeadlines ==
    UNION {[1..n -> HeadlineTokens] : n \in 0..MaxContentLen}

\* formatToMarkdown({summary, ...}) on its own.
ProbeRender ==
    /\ probe = NoProbe
    /\ \E h \in ProbeHeadlines :
          probe' = [fn      |-> "formatToMarkdown",
                    summary |-> h,
                    result  |-> formatToMarkdown(h, "Hello world", <<"- said hello">>,
                                    [minute |-> 0, suf |-> NoSuffix, ext |-> "m4a"])]
    /\ UNCHANGED <<phase, settings, folders, recs, notes, tasks, queue, notices>>

PureNext ==
    \/ ProbeFilter
    \/ ProbeSplit
    \/ ProbeRender

PureSpec == PureInit /\ [][PureNext]_vars

\* ================================================================ claims
Ids == 1..Len(tasks)
Terminal(t) == t.pc \in TerminalPcs
Created(t) == t.createResult = "ok"
DesiredOutputPath(t) == BasePath(settings.outputDirectory, t.base, NoSuffix, "md")
DesiredTarget(t) ==
    BasePath(settings.processedDirectory, t.base, NoSuffix, recs[t.file].ext)

\* C1: at most one processAudioFile run is active at any time.
C1_AtMostOneActiveRun == Cardinality(Running(tasks)) <= 1

\* A run is active while another call of queueFile has been made and waits.
C1_Witness ==
    /\ Cardinality(Running(tasks)) = 1
    /\ queue # <<>>
    /\ \E i \in Ids : Terminal(tasks[i])

\* C2 as stated: a run that succeeded created one Note, a run that failed
\* created none.
C2_OneNoteOnSuccessNoneOnFailure ==
    \A i \in Ids :
        /\ tasks[i].pc = "succeeded" =>
               Created(tasks[i]) /\ tasks[i].outputPath \in DOMAIN notes
        /\ tasks[i].pc = "failed" => ~Created(tasks[i])

\* C2 amended: a run that succeeded created one Note; a run that failed
\* created none unless it failed at the archive move, and then it created one.
C2_NoteCountByOutcome ==
    \A i \in Ids :
        /\ tasks[i].pc = "succeeded" =>
               Created(tasks[i]) /\ tasks[i].outputPath \in DOMAIN notes
        /\ tasks[i].pc = "failed" =>
               (Created(tasks[i]) <=> tasks[i].failStage = "move")
        /\ (tasks[i].pc = "failed" /\ tasks[i].failStage = "move") =>
               tasks[i].outputPath \in DOMAIN notes

\* Runs of every outcome: a success, a failure before the write, a failure
\* at the move.
C2_Witness ==
    /\ \E i \in Ids : tasks[i].pc = "succeeded"
    /\ \E i \in Ids : tasks[i].pc = "failed" /\ tasks[i].failStage = "move"
    /\ \E i \in Ids : tasks[i].pc = "failed" /\ tasks[i].failStage # "move"

\* C3 as stated: after a run has ended, its source is in the processed
\* directory if and only if the run wrote its Note.
C3_ArchivedIffNoteWritten ==
    \A i \in Ids :
        Terminal(tasks[i]) =>
            (recs[tasks[i].file].path.dir = settings.processedDirectory
                <=> Created(tasks[i]))

\* C3 amended: a run moves its source only after it wrote its Note, and it
\* ends in success exactly when it moved the source; a run that wrote its
\* Note and failed at the move has not moved the source.
C3_MovedOnlyAfterNoteWritten ==
    \A i \in Ids :
        /\ tasks[i].renameInvoked => Created(tasks[i])
        /\ tasks[i].moved => Created(tasks[i])
        /\ Terminal(tasks[i]) => (tasks[i].moved <=> tasks[i].pc = "succeeded")
        /\ (tasks[i].failStage = "move") => (Created(tasks[i]) /\ ~tasks[i].moved)

C3_Witness ==
    /\ \E i \in Ids : tasks[i].pc = "succeeded" /\ tasks[i].moved
    /\ \E i \in Ids : tasks[i].pc = "failed" /\ tasks[i].failStage = "move"
    /\ \E i \in Ids : tasks[i].pc = "failed" /\ tasks[i].failStage = "write"

\* C4: every call of queueFile leads to a run that starts and ends, in
\* success or in failure, whatever the earlier runs did.
\* Tasks are never removed and an ended run stays ended, so it is enough
\* that again and again every task queued so far has ended.
C4_EveryRunEnds == []<>(\A i \in Ids : Terminal(tasks[i]))

\* A run failed and a run queued after it succeeded.
C4_Witness ==
    \E i, j \in Ids :
        i < j /\ tasks[i].pc = "failed" /\ tasks[j].pc = "succeeded"

\* C5: runs start in the order of the queueFile calls, each after the runs
\* of the earlier calls have ended.
C5_FirstQueuedFirstRun ==
    \A i, j \in Ids :
        (i < j /\ tasks[j].pc # "pending") => Terminal(tasks[i])

\* Two calls waited at once and the earlier of them runs while the later waits.
C5_Witness ==
    \E i, j, k \in Ids :
        /\ i < j /\ j < k
        /\ Terminal(tasks[i])
        /\ tasks[j].pc \in ActivePcs
        /\ tasks[k].pc = "pending"
        /\ tasks[j].file # tasks[k].file

BadResponse(t) ==
    t.transcription = "unusable" \/ t.completion = "unusable"

\* C6: when the transcription or the summarization call rejects or returns
\* empty text, the step that receives it ends the run in failure, changes no
\* file, and shows the Failed notice with the file's path; the run has
\* written no Note and called no rename.
C6_BadResponseFailsUntouched ==
    [][\A i \in Ids :
          (BadResponse(tasks'[i]) /\ ~BadResponse(tasks[i])) =>
             /\ tasks'[i].pc = "failed"
             /\ tasks'[i].createResult = ""
             /\ ~tasks'[i].renameInvoked
             /\ ~tasks'[i].moved
             /\ notes' = notes
             /\ recs' = recs
             /\ \E k \in (Len(notices) + 1)..Len(notices') :
                   notices'[k] = Notice("Failed", recs[tasks[i].file].path)]_vars

\* A run failed on an unusable transcription, another on an unusable summary.
C6_Witness ==
    /\ \E i \in Ids : tasks[i].transcription = "unusable" /\ tasks[i].pc = "failed"
    /\ \E i \in Ids : tasks[i].completion = "unusable" /\ tasks[i].pc = "failed"

\* C7: when vault.create rejects, the run fails, rename is never called in
\* that run, and the step leaves the source where it was.
C7_WriteFailureSkipsMove ==
    [][\A i \in Ids :
          (tasks'[i].createResult = "rejected") =>
             /\ tasks'[i].pc = "failed"
             /\ ~tasks'[i].renameInvoked
             /\ ~tasks'[i].moved
             /\ (tasks[i].createResult # "rejected" => recs' = recs)]_vars

\* vault.create rejected because the chosen path was taken.
C7_Witness ==
    \E i \in Ids :
        /\ tasks[i].createResult = "rejected"
        /\ tasks[i].outputPath \in DOMAIN notes
        /\ tasks[i].pc = "failed"

\* C8 as stated: each recording yields at most one Note.
C8_AtMostOneNotePerRecording ==
    \A r \in Recs :
        Cardinality({i \in Ids : tasks[i].file = r /\ Created(tasks[i])}) <= 1

\* C9: the note path and the archive path are the desired path when no file
\* is there, and otherwise the desired path with _N before the extension,
\* 0 <= N < 1000.
C9_UniquePathResolution ==
    \A i \in Ids :
        /\ tasks[i].outputPath # NoPath =>
              IF tasks[i].noteCollision
              THEN /\ tasks[i].outputPath # DesiredOutputPath(tasks[i])
                   /\ tasks[i].outputPath.suf \in 0..999
                   /\ [tasks[i].outputPath EXCEPT !.suf = NoSuffix] =
                         DesiredOutputPath(tasks[i])
              ELSE tasks[i].outputPath = DesiredOutputPath(tasks[i])
        /\ tasks[i].targetLocation # NoPath =>
              IF tasks[i].targetCollision
              THEN /\ tasks[i].targetLocation # DesiredTarget(tasks[i])
                   /\ tasks[i].targetLocation.suf \in 0..999
                   /\ [tasks[i].targetLocation EXCEPT !.suf = NoSuffix] =
                         DesiredTarget(tasks[i])
              ELSE tasks[i].targetLocation = DesiredTarget(tasks[i])

\* One run found both desired paths free, another found both taken.
C9_Witness ==
    \E i, j \in Ids :
        /\ tasks[i].pc = "succeeded"
        /\ ~tasks[i].noteCollision /\ ~tasks[i].targetCollision
        /\ tasks[j].pc = "succeeded"
        /\ tasks[j].noteCollision /\ tasks[j].targetCollision
        /\ tasks[j].file # tasks[i].file

\* C10: no step changes or removes a file of the output directory, and a
\* Note is written only at a path where no file was.
C10_NoOverwrite ==
    [][/\ \A p \in DOMAIN notes : p \in DOMAIN notes' /\ notes'[p] = notes[p]
       /\ \A i \in Ids :
             (~Created(tasks[i]) /\ Created(tasks'[i])) =>
                /\ ~PathExists(recs, notes, tasks[i].outputPath)
                /\ DOMAIN notes' = DOMAIN notes \cup {tasks[i].outputPath}]_vars

\* The desired path held the user's note, the run wrote its Note beside it.
C10_Witness ==
    \E i \in Ids :
        /\ Created(tasks[i])
        /\ tasks[i].noteCollision
        /\ DesiredOutputPath(tasks[i]) \in DOMAIN notes
        /\ notes[DesiredOutputPath(tasks[i])] = UserNote
        /\ tasks[i].outputPath \in DOMAIN notes

\* The path's string holds the watch directory's string somewhere: it is a
\* prefix, the watch directory, a suffix.
ContainsWatch(st, p) ==
    \E i \in 1..(Len(PathTokens(p)) + 1), j \in 0..Len(PathTokens(p)) :
        SubSeq(PathTokens(p), i, j) = st.watchDirectory

\* C11: shouldProcessFile is true exactly for a regular file whose extension
\* is mp3 or m4a and whose path contains the watch directory's string; it is
\* false for every other extension; it changes nothing.
C11_FilterIffFileAudioUnderWatch ==
    [][probe'.fn = "shouldProcessFile" =>
          /\ probe'.result <=>
                (/\ probe'.kind = "TFile"
                 /\ probe'.path.ext \in {"mp3", "m4a"}
                 /\ ContainsWatch(settings, probe'.path))
          /\ probe'.path.ext \notin {"mp3", "m4a"} => ~probe'.result
          /\ <<phase, settings, folders, recs, notes, tasks, queue, notices>>' =
                <<phase, settings, folders, recs, notes, tasks, queue, notices>>]_vars

\* An m4a file is accepted whose folder is not the watch directory but has
\* its string in its name.
C11_Witness ==
    /\ probe.fn = "shouldProcessFile"
    /\ probe.result
    /\ probe.path.ext = "m4a"
    /\ probe.path.dir # settings.watchDirectory

\* C12: a recording with an allowed extension in the watch directory passes
\* shouldProcessFile, and one that was moved out of it, to the processed
\* directory in particular, does not, whatever the directories' names.
C12_MovedOutIsNoCandidate ==
    \A r \in Recs :
        recs[r].exists =>
            (shouldProcessFile(settings, "TFile", recs[r].path)
                <=> recs[r].path.dir = settings.watchDirectory)

\* The recordings a run was queued for.
Discovered == {tasks[i].file : i \in Ids}

\* C13: every discovered recording still exists, in the watch directory or
\* in the processed directory, and no two recordings are at one path: no run
\* deleted a recording and no move replaced a recording in the processed
\* directory.
C13_NoRecordingLost ==
    /\ \A r \in Discovered :
          /\ recs[r].exists
          /\ recs[r].path.dir \in {settings.watchDirectory, settings.processedDirectory}
    /\ \A r1, r2 \in Recs :
          (r1 # r2 /\ recs[r1].exists /\ recs[r2].exists)
              => recs[r1].path # recs[r2].path

\* A move was rejected because another recording is at the target, and both
\* recordings are still there.
C13_Witness ==
    \E i \in Ids :
        /\ tasks[i].failStage = "move"
        /\ recs[tasks[i].file].exists
        /\ \E r \in Recs \ {tasks[i].file} :
              recs[r].exists /\ recs[r].path = tasks[i].targetLocation

\* The first line break of a string, or one past its end when it has none.
FirstBreak(s) ==
    IF \E k \in DOMAIN s : s[k] = "\n"
    THEN CHOOSE k \in DOMAIN s : s[k] = "\n" /\ \A j \in 1..(k - 1) : s[j] # "\n"
    ELSE Len(s) + 1

\* t is s without the blanks and line breaks at its two ends.
IsTrimOf(t, s) ==
    \E i \in 1..(Len(s) + 1), j \in 0..Len(s) :
        /\ t = SubSeq(s, i, j)
        /\ \A k \in 1..(i - 1) : s[k] \in {" ", "\n"}
        /\ \A k \in (j + 1)..Len(s) : s[k] \in {" ", "\n"}
        /\ t # << >> => (t[1] \notin {" ", "\n"} /\ t[Len(t)] \notin {" ", "\n"})
        /\ t = << >> => i = Len(s) + 1

\* C14: enhanceTranscript throws exactly when the call rejected or the
\* content is empty; otherwise the summary is the content up to its first
\* line break and the content is what follows that line break, in order,
\* without the white space at its two ends.
C14_SplitsOnFirstLineBreak ==
    probe.fn = "enhanceTranscript" =>
        LET c == probe.response.content IN
        /\ probe.throws <=> (probe.response.error \/ c = << >>)
        /\ ~probe.throws =>
              /\ probe.result.summary = SubSeq(c, 1, FirstBreak(c) - 1)
              /\ IsTrimOf(probe.result.content,
                          SubSeq(c, FirstBreak(c) + 1, Len(c)))

\* A content of two lines and more whose remainder has white space around it
\* and a line break inside.
C14_Witness ==
    /\ probe.fn = "enhanceTranscript"
    /\ ~probe.throws
    /\ probe.response.content = <<"a", "\n", " ", "b">>
    /\ probe.result = [summary |-> <<"a">>, content |-> <<"b">>]

\* C15: when vault.rename rejects after the Note was written, the run ends
\* as failed with the Failed notice, the step changes no file (the source
\* stays where it was, the watch directory when the run found it there), and
\* the Note stays in the output directory from then on.
C15_MoveFailureKeepsNoteAndSource ==
    [][\A i \in Ids :
          /\ (tasks'[i].failStage = "move" /\ tasks[i].failStage # "move") =>
                /\ Created(tasks[i])
                /\ tasks'[i].pc = "failed"
                /\ ~tasks'[i].moved
                /\ recs' = recs
                /\ recs'[tasks[i].file].exists
                /\ (tasks[i].startPath.dir = settings.watchDirectory
                      => recs'[tasks[i].file].path.dir = settings.watchDirectory)
                /\ notices'[Len(notices) + 1]
                      = Notice("Failed", recs[tasks[i].file].path)
          /\ tasks'[i].failStage = "move" =>
                /\ tasks'[i].outputPath \in DOMAIN notes'
                /\ notes'[tasks'[i].outputPath] = tasks'[i].markdown]_vars

\* A run whose move was rejected: its Note is there and its source is in the
\* watch directory.
C15_Witness ==
    \E i \in Ids :
        /\ tasks[i].failStage = "move"
        /\ tasks[i].pc = "failed"
        /\ tasks[i].outputPath \in DOMAIN notes
        /\ recs[tasks[i].file].path.dir = settings.watchDirectory
        /\ recs[tasks[i].file].path.dir # settings.processedDirectory

\* C16: whenever a run calls vault.rename, the processed directory exists.
C16_MoveIntoExistingFolder ==
    \A i \in Ids : tasks[i].renameInvoked => tasks[i].targetDirExisted

\* The file name of a path: `<base>.<ext>` or `<base>_<n>.<ext>`.
FileNameOf(p) == [minute |-> p.minute, suf |-> p.suf, ext |-> p.ext]

\* C17: the Note of a successful run names, as its source, the file name the
\* run archived its recording under.
C17_SourceNamesArchivedFile ==
    \A i \in Ids :
        tasks[i].pc = "succeeded" =>
            notes[tasks[i].outputPath].source = FileNameOf(tasks[i].targetLocation)

\* Every step of the run completed, the move included.
AllStepsCompleted(t) ==
    /\ t.transcription = "text"
    /\ t.completion = "text"
    /\ t.createResult = "ok"
    /\ t.moved

CountNotices(ns, kinds) == Cardinality({k \in DOMAIN ns : ns[k].kind \in kinds})

\* C18: a run shows the Processing notice with the file's path when it
\* starts, and one terminal notice with the file's path when it ends, which
\* is Transcribed exactly when every step through the move completed and
\* Failed otherwise; there are as many Processing notices as started runs
\* and as many terminal notices as ended runs; a run that has shown its
\* terminal notice changes nothing any more, every file being written or
\* moved by a run that has not ended.
C18_StartThenOneTerminalNotice ==
    [][/\ \A i \in 1..Len(tasks') :
            /\ (i \in Ids /\ Terminal(tasks[i])) => tasks'[i] = tasks[i]
            /\ (Terminal(tasks'[i]) /\ ~(i \in Ids /\ Terminal(tasks[i]))) =>
                  /\ i \in Ids
                  /\ tasks[i].pc \in ActivePcs
                  /\ Len(notices') > Len(notices)
                  /\ notices'[Len(notices) + 1] =
                        Notice(IF AllStepsCompleted(tasks'[i])
                               THEN "Transcribed" ELSE "Failed",
                               recs'[tasks'[i].file].path)
                  /\ (tasks'[i].pc = "succeeded") <=> AllStepsCompleted(tasks'[i])
            /\ (tasks'[i].pc # "pending" /\ (i \in Ids => tasks[i].pc = "pending")) =>
                  /\ tasks'[i].pc = "transcribeAudio"
                  /\ Len(notices') > Len(notices)
                  /\ notices'[Len(notices')] =
                        Notice("Processing", tasks'[i].startPath)
                  /\ tasks'[i].startPath = recs'[tasks'[i].file].path
       /\ CountNotices(notices', {"Processing"}) =
             Cardinality({i \in 1..Len(tasks') : tasks'[i].pc # "pending"})
       /\ CountNotices(notices', {"Transcribed", "Failed"}) =
             Cardinality({i \in 1..Len(tasks') : Terminal(tasks'[i])})
       /\ notes' # notes => \E i \in Ids : tasks[i].pc = "create"
       /\ (\E r \in Recs : recs'[r].path.dir # recs[r].path.dir /\ recs[r].exists) =>
             \E i \in Ids : tasks[i].pc = "rename"]_vars

\* One run has ended with Transcribed, carrying the archived file's path, and
\* another with Failed.
C18_Witness ==
    /\ \E i, j \in Ids : tasks[i].pc = "succeeded" /\ tasks[j].pc = "failed"
    /\ \E k \in DOMAIN notices :
          /\ notices[k].kind = "Transcribed"
          /\ notices[k].path.dir = settings.processedDirectory
    /\ \E k \in DOMAIN notices : notices[k].kind = "Failed"
    /\ notices[1].kind = "Processing"

\* The double quote at position k of a line is not escaped: an even number
\* of backslashes stands before it.
BareQuoteAt(line, k) ==
    /\ line[k] = "\""
    /\ LET n == CHOOSE n \in 0..(k - 1) :
                    /\ \A j \in 1..n : line[k - j] = "\\"
                    /\ (k - n - 1 = 0 \/ line[k - n - 1] # "\\")
       IN n % 2 = 0

\* C19: the summary line of the rendered Note has no unescaped double quote
\* between its opening quote (the line's second token) and its closing quote
\* (its last).
C19_SummaryLineStaysQuoted ==
    probe.fn = "formatToMarkdown" =>
        LET line == probe.result.summaryLine IN
        \A k \in 3..(Len(line) - 1) : ~BareQuoteAt(line, k)

\* C20: the rename event of a run's own move does not queue the archived
\* file again.
C20_OwnMoveQueuesNothing ==
    \A i \in Ids : tasks[i].moved => ~tasks[i].requeued

====
